---- MODULE Spec2Model ----
(***************************************************************************)
(* network-watchdog: the multi-probe watchdog (src/unnamed/part_001).      *)
(* main validates the configuration, starts one loopCheck goroutine per    *)
(* probe, waits for SIGINT/SIGTERM, closes stopCh and returns.  Each       *)
(* loopCheck owns a ticker, a counter and an err variable; a tick runs the *)
(* probe, updates the counter and calls resetServer when the counter has   *)
(* reached DownTimes.  Spec is the whole program with its goroutines;      *)
(* LoopSpec follows one loopCheck through pingProbe, requestProbe,         *)
(* resetServer and the log, for the multi-probe program and for the        *)
(* single-target one (src/main.go).                                        *)
(***************************************************************************)
EXTENDS Integers, Sequences, FiniteSets, TLC

\* ---------------------------------------------------------------- bounds
MaxProbes == 2
MaxDownTimes == 2
MaxCounter == 2
MaxTail == 2
MaxConns == 2

\* ------------------------------------------------- configuration (inputs)
\* Duration strings a configuration file may hold: "x" does not parse,
\* "0s" parses to a zero duration, "1s" to a positive one.
DurationStrings == {"x", "0s", "1s"}

\* time.ParseDuration as main uses it: an error for a string that is no
\* duration, otherwise the duration (in seconds).
ParseDuration(s) ==
    IF s = "0s" THEN [err |-> FALSE, d |-> 0]
    ELSE IF s = "1s" THEN [err |-> FALSE, d |-> 1]
    ELSE [err |-> TRUE, d |-> 0]

\* ProbeConfig: the fields the monitoring engine reads.
ProbeConfig == [DownTimes : {-1, 0, 1, MaxDownTimes},
                Timeout   : {"x", "1s"},
                Interval  : DurationStrings]

\* Config.Probes: the list of probes of the configuration file.
Configs == UNION {[1..n -> ProbeConfig] : n \in 0..MaxProbes}

\* Mutant: the dispatch looks for "ping" without the separating space.
PingPrefix_NoSpace == <<"p", "i", "n", "g">>

\* Strings whose characters matter (probe_url) are sequences of characters.
\* "ping " is the prefix loopCheck dispatches on.
PingPrefix == <<"p", "i", "n", "g", " ">>

\* What may follow the prefix: up to MaxTail characters, spaces included.
Tails == UNION {[1..n -> {" ", "h"}] : n \in 0..MaxTail}

\* Generate204URL / DefaultGenerate204ProbeURL, standing for any HTTP URL.
Generate204URL == <<"h">>

\* ProbeConfig.ProbeURL as loopCheck sees it (main has replaced an empty one
\* by the default): ping URLs, HTTP URLs, and near misses of the prefix.
URLs ==
    {PingPrefix \o t : t \in Tails}
        \cup {Generate204URL, <<"h", " ", "h">>,
              <<"p", "i", "n", "g">>, <<"p", "i", "n", "g", "h">>}

\* ProbeConfig.Server.KeyFile: not configured, a readable private key, or a
\* file that cannot be read or parsed.
KeyFiles == {"", "key", "bad"}

\* The two programs of the repository: the multi-probe watchdog
\* (src/unnamed/part_001) and the single-target one (src/main.go).
Variants == {"multi", "single"}

\* The configuration one loopCheck works with.  The single-target Config has
\* no name, no probe_url and no key_file.
MonitorConfigs ==
    [Name : {"", "srv"}, ProbeURL : URLs, DownTimes : {1, MaxDownTimes},
     Password : {"", "pw"}, KeyFile : KeyFiles]

\* pinger.Count
Count == 3

\* The value of mon while no loopCheck is looked at in detail.
NoMonitor == [pc |-> "none"]

VARIABLES
    conf,       \* conf.Probes, as unmarshalled from the configuration file
    mainpc,     \* position of the main goroutine
    idx,        \* loop index i of main's two loops
    exit,       \* "running", or why the process has ended
    notified,   \* signal.Notify(shutdown, SIGINT, SIGTERM) has been called
    sigSent,    \* the environment has sent SIGINT/SIGTERM
    shutdown,   \* number of signals buffered in the shutdown channel (cap 1)
    stopCh,     \* "open" or "closed"
    closes,     \* number of close(stopCh) calls made
    pc,         \* per probe: position of its loopCheck goroutine
    counter,    \* per probe: loopCheck's counter
    err,        \* per probe: loopCheck's err
    tick,       \* per probe: a tick is buffered in ticker.C (cap 1)
    fails,      \* history: failed probes in a row since start, the last
                \* successful probe or the last successful reset
    mon,        \* one loopCheck in detail (see "one monitor in detail")
    lastCall    \* history: what the call that returned since the loop last
                \* left its select did to the counter: "cleared" (probe
                \* succeeded with the counter at or above DownTimes), "fail"
                \* (probe failed), "reset_ok", "reset_fail"; "none" otherwise

vars == <<conf, mainpc, idx, exit, notified, sigSent, shutdown, stopCh,
          closes, pc, counter, err, tick, fails, lastCall, mon>>

mainVars == <<mainpc, idx, notified, shutdown, stopCh, closes>>
monVars  == <<pc, counter, err, tick, fails, lastCall>>

Probes == DOMAIN conf

Alive == exit = "running"

\* ------------------------------------------------------------------ main
\* Mutant: the threshold check is off by one and lets down_times = 0 pass.
ProbeValid_ZeroPasses(p) ==
    /\ ~ParseDuration(p.Timeout).err
    /\ ~ParseDuration(p.Interval).err
    /\ ~(p.DownTimes < 0)

\* main, lines 282-293: the checks one loop iteration makes on probe p.
ProbeValid(p) ==
    /\ ~ParseDuration(p.Timeout).err
    /\ ~ParseDuration(p.Interval).err
    /\ ~(p.DownTimes <= 0)

Init ==
    /\ conf \in Configs
    /\ mainpc = "check_len"
    /\ idx = 1
    /\ exit = "running"
    /\ notified = FALSE
    /\ sigSent = FALSE
    /\ shutdown = 0
    /\ stopCh = "open"
    /\ closes = 0
    /\ pc = [m \in Probes |-> "idle"]
    /\ counter = [m \in Probes |-> 0]
    /\ err = [m \in Probes |-> "nil"]
    /\ tick = [m \in Probes |-> FALSE]
    /\ fails = [m \in Probes |-> 0]
    /\ lastCall = [m \in Probes |-> "none"]
    /\ mon = NoMonitor

\* main, lines 270-273: no probes configured is fatal.
CheckLen ==
    /\ Alive /\ mainpc = "check_len"
    /\ IF Len(conf) <= 0
         THEN /\ exit' = "fatal"
              /\ mainpc' = "fatal"
         ELSE /\ mainpc' = "validate"
              /\ UNCHANGED exit
    /\ UNCHANGED <<mon, conf, idx, notified, sigSent, shutdown, stopCh, closes, monVars>>

\* main, lines 275-294: one iteration of the validation loop.
Validate ==
    /\ Alive /\ mainpc = "validate"
    /\ IF idx > Len(conf)
         THEN /\ mainpc' = "start"
              /\ idx' = 1
              /\ UNCHANGED exit
         ELSE IF ProbeValid(conf[idx])
                THEN /\ idx' = idx + 1
                     /\ UNCHANGED <<mainpc, exit>>
                ELSE /\ exit' = "fatal"
                     /\ mainpc' = "fatal"
                     /\ UNCHANGED idx
    /\ UNCHANGED <<mon, conf, notified, sigSent, shutdown, stopCh, closes, monVars>>

\* main, lines 296-299: one iteration of the start loop,
\* go loopCheck(stopCh, &conf.Probes[i]).
StartMonitor ==
    /\ Alive /\ mainpc = "start"
    /\ idx <= Len(conf)
    /\ pc' = [pc EXCEPT ![idx] = "start"]
    /\ idx' = idx + 1
    /\ UNCHANGED <<mon, conf, mainpc, exit, notified, sigSent, shutdown, stopCh, closes,
                   counter, err, tick, fails, lastCall>>

\* main, lines 297, 301-302: the start loop is over and signal.Notify
\* registers the shutdown channel.
Notify ==
    /\ Alive /\ mainpc = "start"
    /\ idx > Len(conf)
    /\ notified' = TRUE
    /\ mainpc' = "wait"
    /\ UNCHANGED <<mon, conf, idx, exit, sigSent, shutdown, stopCh, closes, monVars>>

\* The environment sends SIGINT or SIGTERM.  Before signal.Notify the Go
\* runtime's default disposition ends the process; afterwards the signal is
\* put in the shutdown channel (buffer 1).
Signal ==
    /\ Alive /\ ~sigSent
    /\ sigSent' = TRUE
    /\ IF notified
         THEN /\ shutdown' = 1
              /\ UNCHANGED exit
         ELSE /\ exit' = "signal"
              /\ UNCHANGED shutdown
    /\ UNCHANGED <<mon, conf, mainpc, idx, notified, stopCh, closes, monVars>>

\* Mutant: main receives the signal and goes on to return without closing
\* stopCh.
Shutdown_NoClose ==
    /\ Alive /\ mainpc = "wait"
    /\ shutdown > 0
    /\ shutdown' = shutdown - 1
    /\ mainpc' = "return"
    /\ UNCHANGED <<mon, conf, idx, exit, notified, sigSent, stopCh, closes, monVars>>

\* main, lines 303-304: <-shutdown receives the signal, then close(stopCh).
Shutdown ==
    /\ Alive /\ mainpc = "wait"
    /\ shutdown > 0
    /\ shutdown' = shutdown - 1
    /\ stopCh' = "closed"
    /\ closes' = closes + 1
    /\ mainpc' = "return"
    /\ UNCHANGED <<mon, conf, idx, exit, notified, sigSent, monVars>>

\* main, line 305: main returns, and the Go runtime ends the process with
\* every goroutine wherever it stands.
MainReturn ==
    /\ Alive /\ mainpc = "return"
    /\ exit' = "returned"
    /\ mainpc' = "done"
    /\ UNCHANGED <<mon, conf, idx, notified, sigSent, shutdown, stopCh, closes, monVars>>

\* ------------------------------------------------------------- loopCheck
\* loopCheck, line 199: time.NewTicker panics on a non-positive interval,
\* and a panic in a goroutine ends the process.
TickerPanics(p) == ParseDuration(p.Interval).d <= 0

\* loopCheck, lines 199-205: the goroutine starts, creates its ticker and
\* enters the loop.
LoopStart(m) ==
    /\ Alive /\ pc[m] = "start"
    /\ IF TickerPanics(conf[m])
         THEN /\ exit' = "panic"
              /\ UNCHANGED pc
         ELSE /\ pc' = [pc EXCEPT ![m] = "select"]
              /\ UNCHANGED exit
    /\ UNCHANGED <<mon, conf, mainVars, sigSent, counter, err, tick, fails, lastCall>>

\* Mutant: a tick that arrives during a call starts the next probe at once.
TickFire_StartsProbe(m) ==
    /\ Alive /\ pc[m] \in {"select", "probe", "reset"}
    /\ ~tick[m]
    /\ IF pc[m] = "reset"
         THEN pc' = [pc EXCEPT ![m] = "probe"] /\ UNCHANGED tick
         ELSE tick' = [tick EXCEPT ![m] = TRUE] /\ UNCHANGED pc
    /\ UNCHANGED <<mon, conf, mainVars, exit, sigSent, counter, err, fails, lastCall>>

\* The ticker of a running loopCheck delivers a tick into ticker.C; a tick
\* that finds the buffer full is dropped.
TickFire(m) ==
    /\ Alive /\ pc[m] \in {"select", "probe", "reset"}
    /\ ~tick[m]
    /\ tick' = [tick EXCEPT ![m] = TRUE]
    /\ UNCHANGED <<mon, conf, mainVars, exit, sigSent, pc, counter, err, fails, lastCall>>

\* loopCheck, lines 200, 208-210: select takes the stopCh case and the loop
\* ends; the deferred ticker.Stop() runs, so the ticker delivers nothing more
\* and its channel goes with the function's frame.
SelectStop(m) ==
    /\ Alive /\ pc[m] = "select"
    /\ stopCh = "closed"
    /\ pc' = [pc EXCEPT ![m] = "done"]
    /\ tick' = [tick EXCEPT ![m] = FALSE]
    /\ lastCall' = [lastCall EXCEPT ![m] = "none"]
    /\ UNCHANGED <<mon, conf, mainVars, exit, sigSent, counter, err, fails>>

\* loopCheck, lines 208, 211-216: select takes the ticker case and the
\* probe call begins.  Go's select chooses among its ready cases at random.
SelectTick(m) ==
    /\ Alive /\ pc[m] = "select"
    /\ tick[m]
    /\ tick' = [tick EXCEPT ![m] = FALSE]
    /\ pc' = [pc EXCEPT ![m] = "probe"]
    /\ lastCall' = [lastCall EXCEPT ![m] = "none"]
    /\ UNCHANGED <<mon, conf, mainVars, exit, sigSent, counter, err, fails>>

\* Mutant: a successful probe lowers the counter by one instead of clearing it.
CounterAfterProbe_Decay(c, ok) == IF ~ok THEN c + 1 ELSE IF c > 0 THEN c - 1 ELSE 0

\* Mutant: the counter stops at 1.
CounterAfterProbe_Capped(c, ok) == IF ~ok THEN (IF c >= 1 THEN 1 ELSE c + 1) ELSE 0

\* loopCheck, lines 217-226: the counter after the probe has returned.
CounterAfterProbe(c, ok) == IF ~ok THEN c + 1 ELSE 0

\* Mutant: the trip condition is strict.
Tripped_Strict(c, p) == c > p.DownTimes

\* loopCheck, line 227: the trip condition.
Tripped(c, p) == c >= p.DownTimes

\* Mutant: a failed reset backs the counter off by one.
CounterAfterReset_BackOff(c, ok) == IF ok THEN 0 ELSE c - 1

\* Mutant: the counter is cleared whatever resetServer returns.
CounterAfterReset_Always(c, ok) == 0

\* Mutant: a successful reset leaves one failure on the counter.
CounterAfterReset_OffByOne(c, ok) == IF ok THEN 1 ELSE c

\* Mutant: no reset touches the counter.
CounterAfterReset_Keep(c, ok) == c

\* loopCheck, lines 234-239: the counter after resetServer has returned.
CounterAfterReset(c, ok) == IF ok THEN 0 ELSE c

\* Mutant: counter is a package-level variable shared by every loopCheck.
ProbeReturn_SharedCounter(m) ==
    /\ Alive /\ pc[m] = "probe"
    /\ \E ok \in BOOLEAN :
         /\ ok \/ counter[m] < MaxCounter
         /\ err' = [err EXCEPT ![m] = IF ok THEN "nil" ELSE "probe"]
         /\ counter' = [n \in Probes |-> CounterAfterProbe(counter[m], ok)]
         /\ fails' = [fails EXCEPT ![m] = IF ok THEN 0 ELSE fails[m] + 1]
         /\ lastCall' = [lastCall EXCEPT ![m] =
                        IF ~ok THEN "fail"
                        ELSE IF Tripped(counter[m], conf[m]) THEN "cleared" ELSE "none"]
         /\ pc' = [pc EXCEPT ![m] =
                        IF Tripped(counter'[m], conf[m]) THEN "reset" ELSE "select"]
    /\ UNCHANGED <<mon, conf, mainVars, exit, sigSent, tick>>

\* loopCheck, lines 212-231: the probe returns, the counter is updated and
\* either resetServer is called or the loop goes back to select.
ProbeReturn(m) ==
    /\ Alive /\ pc[m] = "probe"
    /\ \E ok \in BOOLEAN :
         /\ ok \/ counter[m] < MaxCounter
         /\ err' = [err EXCEPT ![m] = IF ok THEN "nil" ELSE "probe"]
         /\ counter' = [counter EXCEPT ![m] = CounterAfterProbe(counter[m], ok)]
         /\ fails' = [fails EXCEPT ![m] = IF ok THEN 0 ELSE fails[m] + 1]
         /\ lastCall' = [lastCall EXCEPT ![m] =
                        IF ~ok THEN "fail"
                        ELSE IF Tripped(counter[m], conf[m]) THEN "cleared" ELSE "none"]
         /\ pc' = [pc EXCEPT ![m] =
                        IF Tripped(counter'[m], conf[m]) THEN "reset" ELSE "select"]
    /\ UNCHANGED <<mon, conf, mainVars, exit, sigSent, tick>>

\* loopCheck, lines 231-240: resetServer returns.
ResetReturn(m) ==
    /\ Alive /\ pc[m] = "reset"
    /\ \E ok \in BOOLEAN :
         /\ err' = [err EXCEPT ![m] = IF ok THEN "nil" ELSE "reset"]
         /\ counter' = [counter EXCEPT ![m] = CounterAfterReset(counter[m], ok)]
         /\ fails' = [fails EXCEPT ![m] = IF ok THEN 0 ELSE fails[m]]
         /\ lastCall' = [lastCall EXCEPT ![m] = IF ok THEN "reset_ok" ELSE "reset_fail"]
    /\ pc' = [pc EXCEPT ![m] = "select"]
    /\ UNCHANGED <<mon, conf, mainVars, exit, sigSent, tick>>

Next ==
    \/ CheckLen
    \/ Validate
    \/ StartMonitor
    \/ Notify
    \/ Signal
    \/ Shutdown
    \/ MainReturn
    \/ \E m \in Probes : LoopStart(m)
    \/ \E m \in Probes : TickFire(m)
    \/ \E m \in Probes : SelectStop(m)
    \/ \E m \in Probes : SelectTick(m)
    \/ \E m \in Probes : ProbeReturn(m)
    \/ \E m \in Probes : ResetReturn(m)

Spec == Init /\ [][Next]_vars

\* The Go scheduler runs the main goroutine whenever it can take a step.
\* Nothing is assumed of the monitors: a probe or resetServer call may take
\* arbitrarily long.
Fairness ==
    /\ WF_vars(Shutdown)
    /\ WF_vars(MainReturn)

FairSpec == Spec /\ Fairness

\* ------------------------------------------------- one monitor in detail
\* LoopSpec follows a single loopCheck through the functions it calls.  mon
\* is a record:
\*   variant, conf    which program, and its configuration
\*   pc               "select", the function being called, or "panic"
\*   counter, err     loopCheck's locals
\*   log              the lines logged since the tick began
\*   call             what the environment did to the probe call of this tick
\*   method           resetServer's list of authentication methods
\*   conns, sessions  SSH connections and sessions that are open
sysVars == <<conf, exit, sigSent, mainVars, monVars>>

\* strings.HasPrefix
HasPrefix(s, prefix) ==
    Len(s) >= Len(prefix) /\ SubSeq(s, 1, Len(prefix)) = prefix

\* strings.Index for a one-character separator: 0 stands for Go's -1.
Index(s, sep) ==
    IF \E i \in 1..Len(s) : s[i] = sep
      THEN CHOOSE i \in 1..Len(s) : s[i] = sep /\ \A j \in 1..(i - 1) : s[j] # sep
      ELSE 0

\* strings.SplitN(s, sep, 2): cut at the first separator, if there is one.
SplitN(s, sep) ==
    LET i == Index(s, sep)
    IN  IF i = 0 THEN <<s>>
        ELSE <<SubSeq(s, 1, i - 1), SubSeq(s, i + 1, Len(s))>>

\* Mutant: one reply is enough for the ping probe.
pingProbe_AnyReply(url, newPingerErr, recv) ==
    IF Len(SplitN(url, " ")) < 2 THEN "panic"
    ELSE IF newPingerErr THEN "NewPinger"
    ELSE IF recv < 1 THEN "ErrorPingProbeUnfinished"
    ELSE "nil"

\* pingProbe, lines 133-169: the error returned (or the panic), given
\* whether ping.NewPinger failed and how many replies pinger.Run received.
pingProbe(url, newPingerErr, recv) ==
    IF Len(SplitN(url, " ")) < 2 THEN "panic"
    ELSE IF newPingerErr THEN "NewPinger"
    ELSE IF recv < Count THEN "ErrorPingProbeUnfinished"
    ELSE "nil"

\* What the network does to one HTTP request: http.NewRequest or the
\* transport fails, or a response with a status code arrives.
Responses ==
    {[fail |-> f, StatusCode |-> 0] : f \in {"NewRequest", "Do"}}
        \cup {[fail |-> "none", StatusCode |-> c] : c \in {200, 204, 301, 404, 500}}

\* requestProbe, lines 171-196.
requestProbe(r) ==
    IF r.fail # "none" THEN r.fail
    ELSE IF r.StatusCode = 200 THEN "nil"
    ELSE IF r.StatusCode # 204 THEN "ErrorStatusCodeIsNot204"
    ELSE "nil"

\* request204 of the single-target program, src/main.go lines 94-108.
request204(r) ==
    IF r.fail # "none" THEN r.fail
    ELSE IF r.StatusCode # 204 THEN "ErrorStatusCodeIsNot204"
    ELSE "nil"

\* No probe call has been made in this tick.
NoCall == [fn |-> "none", fail |-> "none", recv |-> 0, StatusCode |-> 0]

\* One log line.
LogLine(msg, name, cause, c) ==
    [msg |-> msg, name |-> name, cause |-> cause, counter |-> c]

LoopInit ==
    /\ conf = << >>
    /\ mainpc = "check_len" /\ idx = 1 /\ exit = "running"
    /\ notified = FALSE /\ sigSent = FALSE /\ shutdown = 0
    /\ stopCh = "open" /\ closes = 0
    /\ pc = << >> /\ counter = << >> /\ err = << >> /\ tick = << >>
    /\ fails = << >> /\ lastCall = << >>
    /\ \E v \in Variants, c \in MonitorConfigs :
         /\ IF v = "single"
              THEN c.Name = "" /\ c.ProbeURL = Generate204URL /\ c.KeyFile = ""
              ELSE c.Name = "srv"
         /\ mon = [variant |-> v, conf |-> c, pc |-> "select",
                   counter |-> 0, err |-> "nil", log |-> << >>,
                   call |-> NoCall, method |-> << >>,
                   conns |-> 0, sessions |-> 0]

\* loopCheck, lines 208-216 (src/main.go 114-116): a tick arrives and the
\* probe function is chosen.
Dispatch ==
    /\ mon.pc = "select"
    /\ mon' = [mon EXCEPT
                 !.pc = IF mon.variant = "single" THEN "request204"
                        ELSE IF HasPrefix(mon.conf.ProbeURL, PingPrefix)
                               THEN "pingProbe"
                               ELSE "requestProbe",
                 !.log = << >>, !.call = NoCall, !.method = << >>]
    /\ UNCHANGED sysVars

\* loopCheck, line 213: err = pingProbe(conf).
CallPingProbe ==
    /\ mon.pc = "pingProbe"
    /\ \E newPingerErr \in BOOLEAN, recv \in 0..Count :
         /\ newPingerErr => recv = 0
         /\ LET r == pingProbe(mon.conf.ProbeURL, newPingerErr, recv)
            IN  mon' = IF r = "panic"
                         THEN [mon EXCEPT !.pc = "panic"]
                         ELSE [mon EXCEPT
                                 !.pc = "update", !.err = r,
                                 !.call = [fn |-> "pingProbe",
                                           fail |-> IF newPingerErr
                                                      THEN "NewPinger" ELSE "none",
                                           recv |-> recv, StatusCode |-> 0]]
    /\ UNCHANGED sysVars

\* loopCheck, line 215: err = requestProbe(conf).
CallRequestProbe ==
    /\ mon.pc = "requestProbe"
    /\ \E r \in Responses :
         mon' = [mon EXCEPT
                   !.pc = "update", !.err = requestProbe(r),
                   !.call = [fn |-> "requestProbe", fail |-> r.fail,
                             recv |-> 0, StatusCode |-> r.StatusCode]]
    /\ UNCHANGED sysVars

\* src/main.go, line 116: err = request204().
CallRequest204 ==
    /\ mon.pc = "request204"
    /\ \E r \in Responses :
         /\ r.fail # "NewRequest"
         /\ mon' = [mon EXCEPT
                      !.pc = "update", !.err = request204(r),
                      !.call = [fn |-> "request204", fail |-> r.fail,
                                recv |-> 0, StatusCode |-> r.StatusCode]]
    /\ UNCHANGED sysVars

\* loopCheck, lines 217-226: what is logged once the probe has returned e and
\* the counter has become c.  src/main.go (117-122) logs nothing here, and
\* the success line of part_001 is verbose-only.
ProbeLog(v, name, e, c) ==
    IF v = "multi" /\ e # "nil"
      THEN <<LogLine("probe check error", name, e, c)>>
      ELSE << >>

\* loopCheck, lines 217-228 (src/main.go 117-124): the counter is updated
\* and compared with DownTimes.
Update ==
    /\ mon.pc = "update"
    /\ mon.err = "nil" \/ mon.counter < MaxCounter
    /\ LET c == CounterAfterProbe(mon.counter, mon.err = "nil")
           trip == Tripped(c, mon.conf)
       IN  mon' = [mon EXCEPT
                     !.counter = c,
                     !.log = mon.log
                               \o ProbeLog(mon.variant, mon.conf.Name, mon.err, c)
                               \o (IF trip
                                     THEN <<LogLine("resetting server",
                                                    mon.conf.Name, "", -1)>>
                                     ELSE << >>),
                     !.pc = IF trip THEN "resetServer" ELSE "select"]
    /\ UNCHANGED sysVars

\* resetServer, lines 84-95: the authentication methods, or the error of
\* PublicKeyFile.  The single-target program (src/main.go 49-53) always
\* offers the password and knows no key file.
AuthMethods(v, c) ==
    LET pw == IF v = "single" \/ c.Password # "" THEN <<"password">> ELSE << >>
    IN  IF v = "multi" /\ c.KeyFile # ""
          THEN IF c.KeyFile = "bad"
                 THEN [err |-> "PublicKeyFile", method |-> pw]
                 ELSE [err |-> "nil", method |-> pw \o <<"publickey">>]
          ELSE [err |-> "nil", method |-> pw]

\* resetServer, lines 82-109: authentication methods and address; an
\* unusable key file makes resetServer return at line 92.
ResetAuth ==
    /\ mon.pc = "resetServer"
    /\ LET a == AuthMethods(mon.variant, mon.conf)
       IN  mon' = IF a.err # "nil"
                    THEN [mon EXCEPT !.pc = "reset_ret", !.err = a.err,
                                     !.method = a.method]
                    ELSE [mon EXCEPT !.pc = "Dial", !.method = a.method]
    /\ UNCHANGED sysVars

\* resetServer, lines 111-114: ssh.Dial opens a connection or fails.
ResetDial ==
    /\ mon.pc = "Dial"
    /\ \E ok \in BOOLEAN :
         /\ ok => mon.conns < MaxConns
         /\ mon' = IF ok
                     THEN [mon EXCEPT !.pc = "NewSession", !.conns = mon.conns + 1]
                     ELSE [mon EXCEPT !.pc = "reset_ret", !.err = "Dial"]
    /\ UNCHANGED sysVars

\* resetServer, lines 116-120: client.NewSession opens a session or fails;
\* on failure resetServer returns and the client is left as it is.
ResetNewSession ==
    /\ mon.pc = "NewSession"
    /\ \E ok \in BOOLEAN :
         mon' = IF ok
                  THEN [mon EXCEPT !.pc = "Run", !.sessions = mon.sessions + 1]
                  ELSE [mon EXCEPT !.pc = "reset_ret", !.err = "NewSession"]
    /\ UNCHANGED sysVars

\* resetServer, lines 120-130: session.Run, then the deferred
\* session.Close(); nothing closes the client.
ResetRun ==
    /\ mon.pc = "Run"
    /\ \E ok \in BOOLEAN :
         mon' = [mon EXCEPT !.pc = "reset_ret",
                            !.err = IF ok THEN "nil" ELSE "Run",
                            !.sessions = mon.sessions - 1]
    /\ UNCHANGED sysVars

\* loopCheck, lines 232-239: what is logged once resetServer has returned e.
\* src/main.go (128-133) has no else branch and logs the output only.
ResetLog(v, name, e) ==
    <<LogLine("output", "", "", -1)>>
        \o (IF v = "multi" /\ e # "nil"
              THEN <<LogLine("resetting server error", name, e, -1)>>
              ELSE << >>)

\* loopCheck, lines 231-240 (src/main.go 127-133): resetServer has returned.
AfterReset ==
    /\ mon.pc = "reset_ret"
    /\ mon' = [mon EXCEPT
                 !.counter = CounterAfterReset(mon.counter, mon.err = "nil"),
                 !.log = mon.log \o ResetLog(mon.variant, mon.conf.Name, mon.err),
                 !.pc = "select"]
    /\ UNCHANGED sysVars

LoopNext ==
    \/ Dispatch
    \/ CallPingProbe
    \/ CallRequestProbe
    \/ CallRequest204
    \/ Update
    \/ ResetAuth
    \/ ResetDial
    \/ ResetNewSession
    \/ ResetRun
    \/ AfterReset

LoopSpec == LoopInit /\ [][LoopNext]_vars

\* ---------------------------------------------------------- properties
\* The step in which monitor m's probe call returns.
ProbeStep(m) == pc[m] = "probe" /\ pc'[m] # "probe"

\* The step in which monitor m's resetServer call returns.
ResetStep(m) == pc[m] = "reset" /\ pc'[m] # "reset"

\* C1: a tick whose probe succeeds sets the counter to 0, whatever the
\* counter was before (values at or above DownTimes included).
C1_SuccessClearsCounter ==
    [][\A m \in Probes :
         (ProbeStep(m) /\ err'[m] = "nil") => counter'[m] = 0]_vars

\* C1 witness: a probe has succeeded while the counter stood at or above
\* DownTimes (left there by a failed reset), and the counter is 0.
C1_Witness ==
    \E m \in Probes :
        lastCall[m] = "cleared" /\ counter[m] = 0 /\ pc[m] = "select"

\* C2: a failed probe adds exactly 1 to the counter, and the counter goes
\* down only in a step where the probe or the reset succeeded.
C2_CounterMonotone ==
    [][\A m \in Probes :
         /\ (ProbeStep(m) /\ err'[m] # "nil") => counter'[m] = counter[m] + 1
         /\ counter'[m] < counter[m] =>
               (ProbeStep(m) \/ ResetStep(m)) /\ err'[m] = "nil"]_vars

\* C2 witness: two failed probes in a row have taken the counter to 2.
C2_Witness ==
    \E m \in Probes :
        pc[m] = "reset" /\ err[m] = "probe" /\ counter[m] = 2 /\ fails[m] = 2

\* C3: resetServer is called in a tick exactly when the counter, as updated
\* by that tick's probe, is at or above DownTimes, and nowhere else; with
\* DownTimes = 1 that is after every failed probe and after no successful one.
C3_ResetIffTripped ==
    [][\A m \in Probes :
         /\ ProbeStep(m) =>
               (pc'[m] = "reset" <=> counter'[m] >= conf[m].DownTimes)
         /\ (pc'[m] = "reset" /\ pc[m] # "reset") => ProbeStep(m)
         /\ (ProbeStep(m) /\ conf[m].DownTimes = 1) =>
               (pc'[m] = "reset" <=> err'[m] # "nil")]_vars

\* C3 witness: with DownTimes = 1 a single failed probe has led to the call
\* of resetServer.
C3_Witness ==
    \E m \in Probes :
        /\ conf[m].DownTimes = 1
        /\ pc[m] = "reset" /\ err[m] = "probe" /\ counter[m] = 1

\* C4: a failed reset leaves the counter as it was (at or above DownTimes),
\* and if the probe of the very next tick fails too, that tick calls
\* resetServer again.
C4_FailedResetRetried ==
    [][\A m \in Probes :
         /\ (ResetStep(m) /\ err'[m] # "nil") =>
               /\ counter'[m] = counter[m]
               /\ counter'[m] >= conf[m].DownTimes
               /\ pc'[m] = "select"
         /\ (ProbeStep(m) /\ err[m] = "reset" /\ err'[m] # "nil") =>
               pc'[m] = "reset"]_vars

\* C4 witness: after a failed reset the next tick's probe failed as well and
\* resetServer is being called again (the counter is above DownTimes).
C4_Witness ==
    \E m \in Probes :
        pc[m] = "reset" /\ err[m] = "probe" /\ counter[m] > conf[m].DownTimes

\* C5: resetServer is called only after DownTimes failed probes in a row
\* counted from start, the last successful probe or the last successful
\* reset, and is called on the tick that completes them; a successful reset
\* clears the counter.
C5_FreshCountAfterReset ==
    [][\A m \in Probes :
         /\ pc'[m] = "reset" => fails'[m] >= conf[m].DownTimes
         /\ (ProbeStep(m) /\ fails'[m] >= conf[m].DownTimes) => pc'[m] = "reset"
         /\ (ResetStep(m) /\ err'[m] = "nil") => counter'[m] = 0]_vars

\* C5 witness: with the largest threshold, DownTimes failed probes in a row
\* have led to a reset that succeeded; the counter is 0 and a fresh count
\* begins.
C5_Witness ==
    \E m \in Probes :
        /\ conf[m].DownTimes = MaxDownTimes
        /\ lastCall[m] = "reset_ok" /\ counter[m] = 0 /\ fails[m] = 0
        /\ pc[m] = "select"

\* C6: a target's counter and err change only in the steps in which its own
\* probe or reset returns; its counter leaves 0, and resetServer is called
\* for it, only in a step in which its own probe failed.  A target whose
\* probes all succeed therefore stays at 0 and is never reset, whatever the
\* other targets do.
C6_MonitorsIndependent ==
    [][\A n \in Probes :
         /\ (counter'[n] # counter[n] \/ err'[n] # err[n]) =>
               (ProbeStep(n) \/ ResetStep(n))
         /\ (counter[n] = 0 /\ counter'[n] # 0) =>
               (ProbeStep(n) /\ err'[n] = "probe")
         /\ (pc'[n] = "reset" /\ pc[n] # "reset") =>
               (ProbeStep(n) /\ err'[n] = "probe")]_vars

\* C6 witness: one target is failing and inside resetServer while another,
\* standing at 0 with no error, is inside its probe.
C6_Witness ==
    \E m, n \in Probes :
        /\ counter[m] > 0 /\ pc[m] = "reset"
        /\ counter[n] = 0 /\ err[n] = "nil" /\ pc[n] = "probe"

\* C7: once stopCh is closed, a monitor standing at its select leaves the
\* loop and runs no further probe, a pending tick notwithstanding.
C7_NoTickAfterClose ==
    [][\A m \in Probes :
         (stopCh = "closed" /\ pc[m] = "select") =>
             pc'[m] \in {"select", "done"}]_vars

\* C8: when the process ends by main returning after the termination
\* request, no monitor is inside a probe or resetServer call.
C8_NoCallCutShort ==
    exit = "returned" => \A m \in Probes : pc[m] \notin {"probe", "reset"}

\* Monitor m processes no more ticks: its loop has ended or the process has.
Stopped(m) == ~Alive \/ pc[m] = "done"

\* C9: stopCh is closed at most once, exactly once by the time main returns
\* after a termination request, and once SIGINT/SIGTERM has been sent every
\* monitor eventually stops processing ticks.
C9_ShutdownStopsAll ==
    /\ [](closes <= 1)
    /\ []((stopCh = "closed") <=> (closes = 1))
    /\ [](exit = "returned" => closes = 1)
    /\ (sigSent ~> \A m \in Probes : Stopped(m))

\* C9 witness: main has closed stopCh once and returned, and a monitor took
\* the stopCh case and left its loop.
C9_Witness ==
    /\ exit = "returned" /\ closes = 1
    /\ \E m \in Probes : pc[m] = "done"

\* The configuration main rejects: no probes, or some probe with
\* down_times <= 0 or a timeout or interval that is no duration.
ConfigRejected ==
    \/ Len(conf) = 0
    \/ \E j \in Probes :
         \/ conf[j].DownTimes <= 0
         \/ ParseDuration(conf[j].Timeout).err
         \/ ParseDuration(conf[j].Interval).err

\* C10: with a rejected configuration main never gets past validation, no
\* loopCheck is started and no probe or reset is ever run for any target.
C10_RejectedConfigStartsNothing ==
    ConfigRejected =>
        /\ mainpc \in {"check_len", "validate", "fatal"}
        /\ \A m \in Probes :
             pc[m] = "idle" /\ counter[m] = 0 /\ err[m] = "nil"

\* C10 witness: the second probe is the invalid one; the process has ended
\* fatally and the valid probe listed before it was never started.
C10_Witness ==
    /\ exit = "fatal" /\ Len(conf) = 2
    /\ ProbeValid(conf[1]) /\ conf[2].DownTimes <= 0
    /\ pc[1] = "idle"

\* C11: every probe for which a loopCheck has been started has DownTimes >= 1
\* and a strictly positive check interval and probe timeout.
C11_StartedProbesPositive ==
    \A m \in Probes :
        pc[m] # "idle" =>
            /\ conf[m].DownTimes >= 1
            /\ ParseDuration(conf[m].Interval).d > 0
            /\ ParseDuration(conf[m].Timeout).d > 0

\* C12: whenever resetServer is not executing, no SSH connection and no SSH
\* session opened by it is open, on the success path and on every error
\* path, after any number of calls.
C12_ResetLeavesNothingOpen ==
    mon.pc \in {"reset_ret", "select"} => mon.conns = 0 /\ mon.sessions = 0

\* The errors a probe function returns, and those resetServer returns.
ProbeErrors ==
    {"NewPinger", "ErrorPingProbeUnfinished", "NewRequest", "Do",
     "ErrorStatusCodeIsNot204"}

ResetErrors == {"PublicKeyFile", "Dial", "NewSession", "Run"}

\* C13: when a tick is over (or resetServer is about to be called) and its
\* probe failed, the tick's log holds a line with the target's name, the
\* error and the counter; when a tick is over and its reset failed, the log
\* holds a line with the target's name and the error.
C13_FailuresLogged ==
    /\ (mon.pc \in {"select", "resetServer"} /\ mon.err \in ProbeErrors) =>
          \E i \in DOMAIN mon.log :
              mon.log[i] = LogLine("probe check error", mon.conf.Name,
                                   mon.err, mon.counter)
    /\ (mon.pc = "select" /\ mon.err \in ResetErrors) =>
          \E i \in DOMAIN mon.log :
              /\ mon.log[i].msg = "resetting server error"
              /\ mon.log[i].name = mon.conf.Name
              /\ mon.log[i].cause = mon.err

\* C14: pingProbe's panic is never reached, whatever the probe URL; every
\* probe call returns to loopCheck, a failed probe adds 1 to the counter and
\* the loop goes on to resetServer or to its select, and every return of
\* resetServer, failed or not, leads back to the select.
C14_FailuresNeverEndLoop ==
    /\ [](mon.pc # "panic")
    /\ [][/\ mon.pc \in {"pingProbe", "requestProbe", "request204"} =>
                mon'.pc = "update"
          /\ (mon.pc = "update" /\ mon.err # "nil") =>
                /\ mon'.counter = mon.counter + 1
                /\ mon'.pc \in {"select", "resetServer"}
          /\ mon.pc \in {"resetServer", "Dial", "NewSession", "Run"} =>
                mon'.pc \in {"Dial", "NewSession", "Run", "reset_ret"}
          /\ mon.pc = "reset_ret" => mon'.pc = "select"]_vars

\* C14 witness: the probe URL is "ping " with nothing after it; pingProbe was
\* called, failed in ping.NewPinger, and the loop is back at its select with
\* the failure counted.
C14_Witness ==
    /\ mon.conf.ProbeURL = PingPrefix /\ mon.conf.DownTimes = MaxDownTimes
    /\ mon.call.fn = "pingProbe" /\ mon.err = "NewPinger"
    /\ mon.pc = "select" /\ mon.counter = 1

\* C15: an HTTP probe call (requestProbe, or request204 in the single-target
\* program) returns nil exactly when a response arrived and its status code
\* is 200 or 204.
C15_HttpSuccessIff200or204 ==
    (mon.pc = "update" /\ mon.call.fn \in {"requestProbe", "request204"}) =>
        (mon.err = "nil" <=>
            (mon.call.fail = "none" /\ mon.call.StatusCode \in {200, 204}))

\* C16: the pinger sends 3 echo requests; pingProbe returns nil only if at
\* least 3 replies were received, and ErrorPingProbeUnfinished for 0, 1 and
\* 2 replies.
C16_PingNeedsAllReplies ==
    (mon.pc = "update" /\ mon.call.fn = "pingProbe" /\ mon.call.fail = "none") =>
        /\ Count = 3
        /\ mon.err = "nil" <=> mon.call.recv >= Count
        /\ mon.call.recv \in 0..2 => mon.err = "ErrorPingProbeUnfinished"

\* C16 witness: 2 of 3 replies were received and pingProbe has returned
\* ErrorPingProbeUnfinished.
C16_Witness ==
    /\ mon.pc = "update" /\ mon.call.fn = "pingProbe"
    /\ mon.call.recv = 2 /\ mon.err = "ErrorPingProbeUnfinished"

\* C17: a monitor begins a probe only from its select, by taking a buffered
\* tick; a tick that the ticker delivers while the probe or resetServer is
\* running leaves the monitor where it is.
C17_TicksNeverOverlap ==
    [][\A m \in Probes :
         /\ (pc'[m] = "probe" /\ pc[m] # "probe") =>
               (pc[m] = "select" /\ tick[m] /\ ~tick'[m])
         /\ (pc[m] \in {"probe", "reset"} /\ tick'[m] # tick[m]) =>
               (pc'[m] = pc[m] /\ tick'[m])]_vars

\* C17 witness: the ticker has fired while resetServer, called after a failed
\* probe of the same tick, is still running.
C17_Witness ==
    \E m \in Probes :
        pc[m] = "reset" /\ tick[m] /\ lastCall[m] = "fail"

\* C18: with a password and a key file both configured and the key file
\* unusable, resetServer goes on to ssh.Dial with the password as its
\* authentication method.
C18_OneUsableMethodSuffices ==
    [][(/\ mon.pc = "resetServer"
        /\ mon.conf.Password # "" /\ mon.conf.KeyFile = "bad") =>
           (mon'.pc = "Dial" /\ mon'.method = <<"password">>)]_vars

\* C19: between ticks the counter equals the number of failed probes in a
\* row since the start, the last successful probe or the last successful
\* reset, and it is never negative.
C19_CounterIsFailureRun ==
    \A m \in Probes :
        pc[m] = "select" => (counter[m] = fails[m] /\ counter[m] >= 0)

\* C19 witness: between ticks the counter stands above DownTimes (resets
\* keep failing), so it is not capped at the threshold.
C19_Witness ==
    \E m \in Probes :
        /\ pc[m] = "select" /\ counter[m] > conf[m].DownTimes
        /\ counter[m] = fails[m]

\* C20: between ticks the counter is at or above DownTimes only if the last
\* tick called resetServer and the call failed; resetServer is entered only
\* from the tick's one probe return, and its return ends the tick.
C20_TrippedOnlyAfterFailedReset ==
    /\ [](\A m \in Probes :
            (pc[m] = "select" /\ counter[m] >= conf[m].DownTimes) =>
                (lastCall[m] = "reset_fail" /\ err[m] = "reset"))
    /\ [][\A m \in Probes :
            /\ (pc'[m] = "reset" /\ pc[m] # "reset") => ProbeStep(m)
            /\ ResetStep(m) => pc'[m] = "select"]_vars

\* C20 witness: a reset has failed and the monitor waits for the next tick
\* with the counter at DownTimes.
C20_Witness ==
    \E m \in Probes :
        /\ pc[m] = "select" /\ lastCall[m] = "reset_fail"
        /\ counter[m] = conf[m].DownTimes /\ conf[m].DownTimes = MaxDownTimes

====
